---- MODULE Spec2Model ----
(***************************************************************************)
(* The abstract syntax tree of buildlua (src/ast.rs).                      *)
(*                                                                         *)
(* ast.rs holds type declarations only.  Each struct and each enum is      *)
(* transcribed as a table of its variants and their fields; the only       *)
(* operation on the types is construction, so the state machine is a       *)
(* producer that builds values bottom-up: a construction step moves        *)
(* already built values it still holds into the fields of a new value.     *)
(***************************************************************************)
EXTENDS Integers, Sequences, FiniteSets, TLC

\* The number of values the producer builds.
MaxNodes == 5
\* The same where if statements are built: an if statement with an elseif
\* clause is six values.
MaxIfNodes == 6
\* Longest Vec the producer puts into an Option<Vec<T>> field.
MaxRest == 1

\* Payloads of String and f64 fields.
Names == {"a"}
Numbers == {1, 2}

VARIABLES
    nodes,    \* the values built so far, in order of construction
    held,     \* the values the producer still owns (not moved into a parent)
    intent,   \* per value: the operator token of the source expression it was built for
    tags,     \* the operator tag values produced so far
    cap       \* the number of values the producer may build

vars == <<nodes, held, intent, tags, cap>>

(***************************************************************************)
(* Field declarations.  wrap is how the field holds its content:           *)
(*   "Box"     Box<T> or an inline T: exactly one owned value              *)
(*   "Option"  Option<Box<T>> or Option<T>                                 *)
(*   "OptVec"  Option<Vec<T>>                                              *)
(* of is the content type; "String" and "f64" are payloads, every other    *)
(* content type is a type of this file.                                    *)
(***************************************************************************)
F(n, w, t) == [name |-> n, wrap |-> w, of |-> t]

Chunk == [Chunk |-> <<F("0", "Box", "Block")>>]

\* Block with its two fields in the other order.
Block_ReturnFirst ==
    [Block |-> <<F("0", "Option", "ReturnStatement"), F("1", "OptVec", "Statement")>>]

Block == [Block |-> <<F("0", "OptVec", "Statement"), F("1", "Option", "ReturnStatement")>>]

\* Statement::If with a second optional elseif clause.
If_TwoElseif ==
    <<F("condition", "Box", "Expression"), F("then", "Box", "Block"),
      F("elseif_condition", "Option", "Expression"), F("elsethen", "Option", "Block"),
      F("elseif_condition2", "Option", "Expression"), F("elsethen2", "Option", "Block"),
      F("else_", "Box", "Block")>>

\* The fields of Statement::If.
If ==
    <<F("condition", "Box", "Expression"), F("then", "Box", "Block"),
      F("elseif_condition", "Option", "Expression"), F("elsethen", "Option", "Block"),
      F("else_", "Box", "Block")>>

Statement ==
    [Semicolon |-> <<>>,
     Assignment |-> <<F("0", "Box", "VariableList"), F("1", "Box", "ExpressionList")>>,
     FunctionCall |-> <<F("0", "Box", "FunctionCall")>>,
     Label |-> <<F("0", "Box", "Label")>>,
     Break |-> <<>>,
     Goto |-> <<F("0", "Box", "Label")>>,
     Do |-> <<F("0", "Box", "Block")>>,
     While |-> <<F("exp", "Box", "Expression"), F("do_", "Box", "Block")>>,
     Repeat |-> <<F("block", "Box", "Block"), F("until", "Box", "Expression")>>,
     If |-> If,
     ForStepping |-> <<F("name", "Box", "String"), F("from", "Box", "Expression"),
                       F("to", "Box", "Expression"), F("step", "Option", "Expression"),
                       F("block", "Box", "Block")>>,
     ForIn |-> <<F("name_list", "Box", "NameList"), F("in_", "Box", "ExpressionList"),
                 F("do_", "Box", "Block")>>,
     Function |-> <<F("0", "Box", "FunctionName"), F("1", "Box", "FunctionBody")>>,
     LocalFunction |-> <<F("name", "Box", "String"), F("body", "Box", "FunctionBody")>>,
     LocalVariableBinding |-> <<F("0", "Box", "NameList"), F("1", "Option", "ExpressionList")>>]

ReturnStatement == [ReturnStatement |-> <<F("0", "Box", "ExpressionList")>>]

Label == [Label |-> <<F("0", "Box", "String")>>]

FunctionName ==
    [FunctionName |-> <<F("first_dot_access", "Box", "String"),
                        F("rest_dot_access", "OptVec", "String"),
                        F("self_name", "Option", "String")>>]

VariableList ==
    [VariableList |-> <<F("first", "Box", "Variable"), F("rest", "OptVec", "Variable")>>]

Variable ==
    [Name |-> <<F("0", "Box", "String")>>,
     ArrayAccess |-> <<F("from", "Box", "PrefixExpression"), F("key", "Box", "Expression")>>,
     DotAccess |-> <<F("from", "Box", "PrefixExpression"), F("key", "Box", "String")>>]

\* NameList whose first name is optional.
NameList_NoHead == [NameList |-> <<F("0", "Option", "String"), F("1", "OptVec", "String")>>]

NameList == [NameList |-> <<F("0", "Box", "String"), F("1", "OptVec", "String")>>]

\* ExpressionList whose first expression is optional.
ExpressionList_NoHead ==
    [ExpressionList |-> <<F("0", "Option", "Expression"), F("1", "OptVec", "Expression")>>]

ExpressionList ==
    [ExpressionList |-> <<F("0", "Box", "Expression"), F("1", "OptVec", "Expression")>>]

Expression ==
    [Nil |-> <<>>,
     False |-> <<>>,
     True |-> <<>>,
     Number |-> <<F("0", "Box", "f64")>>,
     String |-> <<F("0", "Box", "String")>>,
     ExtendedArgumentAccess |-> <<>>,
     FunctionDefine |-> <<F("0", "Box", "FunctionDefine")>>,
     PrefixExpression |-> <<F("0", "Box", "PrefixExpression")>>,
     TableConstructor |-> <<F("0", "Box", "TableConstructor")>>,
     BinaryOperation |-> <<F("0", "Box", "Expression"), F("1", "Box", "Expression")>>,
     UnaryOperation |-> <<F("0", "Box", "Expression")>>]

PrefixExpression ==
    [Variable |-> <<F("0", "Box", "Variable")>>,
     FunctionCall |-> <<F("0", "Box", "FunctionCall")>>,
     Parenthesis |-> <<F("0", "Box", "Expression")>>]

FunctionCall ==
    [Static |-> <<F("0", "Box", "PrefixExpression"), F("1", "Box", "FunctionArguments")>>,
     SelfTaking |-> <<F("0", "Box", "PrefixExpression"), F("1", "Box", "String"),
                      F("2", "Box", "FunctionArguments")>>]

FunctionArguments ==
    [Parenthesis |-> <<F("0", "Option", "ExpressionList")>>,
     TableConstructor |-> <<F("0", "Box", "TableConstructor")>>,
     String |-> <<F("0", "Box", "String")>>]

FunctionDefine == [FunctionDefine |-> <<F("0", "Box", "FunctionBody")>>]

FunctionBody ==
    [FunctionBody |-> <<F("0", "Option", "ParameterList"), F("1", "Box", "Block")>>]

ParameterList ==
    [NameList |-> <<F("0", "Box", "NameList")>>,
     ExtendedArguments |-> <<F("0", "Box", "NameList")>>,
     ExtendedArgumentsVoid |-> <<>>]

TableConstructor == [TableConstructor |-> <<F("0", "Box", "FieldList")>>]

FieldList == [FieldList |-> <<F("0", "Box", "Field"), F("1", "OptVec", "Field")>>]

Field ==
    [ExpressionForName |-> <<F("name", "Box", "Expression"), F("equals", "Box", "Expression")>>,
     Equals |-> <<F("name", "Box", "String"), F("equals", "Box", "Expression")>>,
     ArrayStyle |-> <<F("0", "Box", "Expression")>>]

\* BinaryOperation with one member more.
BinaryOperation_Extra ==
    [Plus |-> <<>>, Minus |-> <<>>, Times |-> <<>>, Devide |-> <<>>, Exponent |-> <<>>,
     Modulo |-> <<>>, Concatanate |-> <<>>, LessThan |-> <<>>, LessThanOrEqual |-> <<>>,
     GreaterThan |-> <<>>, GreaterThanOrEqual |-> <<>>, Equal |-> <<>>, NotEqual |-> <<>>,
     And |-> <<>>, Or |-> <<>>, FloorDevide |-> <<>>]

BinaryOperation ==
    [Plus |-> <<>>, Minus |-> <<>>, Times |-> <<>>, Devide |-> <<>>, Exponent |-> <<>>,
     Modulo |-> <<>>, Concatanate |-> <<>>, LessThan |-> <<>>, LessThanOrEqual |-> <<>>,
     GreaterThan |-> <<>>, GreaterThanOrEqual |-> <<>>, Equal |-> <<>>, NotEqual |-> <<>>,
     And |-> <<>>, Or |-> <<>>]

UnaryOperation == [Negate |-> <<>>, Not |-> <<>>, Length |-> <<>>]

\* Every type the file declares.
Schema ==
    [Chunk |-> Chunk, Block |-> Block, Statement |-> Statement,
     ReturnStatement |-> ReturnStatement, Label |-> Label, FunctionName |-> FunctionName,
     VariableList |-> VariableList, Variable |-> Variable, NameList |-> NameList,
     ExpressionList |-> ExpressionList, Expression |-> Expression,
     PrefixExpression |-> PrefixExpression, FunctionCall |-> FunctionCall,
     FunctionArguments |-> FunctionArguments, FunctionDefine |-> FunctionDefine,
     FunctionBody |-> FunctionBody, ParameterList |-> ParameterList,
     TableConstructor |-> TableConstructor, FieldList |-> FieldList, Field |-> Field,
     BinaryOperation |-> BinaryOperation, UnaryOperation |-> UnaryOperation]

Payloads == {"String", "f64"}

(***************************************************************************)
(* The producer.  A value is stored as [type, variant, fields], fields     *)
(* holding, per declared field in declaration order:                       *)
(*   Box     the index of the owned value, or the payload itself           *)
(*   Option  <<>> for None, <<x>> for Some(x)                              *)
(*   OptVec  <<>> for None, <<s>> for Some(s), s the sequence of the Vec   *)
(***************************************************************************)

\* Sequences over S of length at most k; without repetition when inj.
RECURSIVE Vecs(_, _, _)
Vecs(S, k, inj) ==
    IF k = 0 THEN {<<>>}
    ELSE {<<>>} \cup
         UNION {{<<x>> \o s : s \in Vecs(IF inj THEN S \ {x} ELSE S, k - 1, inj)} : x \in S}

\* What may fill a position of content type t: a payload, or a held value of that type.
Cands(t, avail) ==
    IF t = "String" THEN Names
    ELSE IF t = "f64" THEN Numbers
    ELSE {n \in avail : nodes[n].type = t}

\* The values field f can take when the producer holds avail.
Choices(f, avail) ==
    CASE f.wrap = "Box" -> Cands(f.of, avail)
      [] f.wrap = "Option" -> {<<>>} \cup {<<c>> : c \in Cands(f.of, avail)}
      [] f.wrap = "OptVec" ->
            {<<>>} \cup {<<s>> : s \in Vecs(Cands(f.of, avail), MaxRest, f.of \notin Payloads)}

\* The content of field f holding v, flattened to a sequence (None and an empty
\* Vec both give the empty sequence).
Items(f, v) ==
    CASE f.wrap = "Box" -> <<v>>
      [] f.wrap = "Option" -> v
      [] f.wrap = "OptVec" -> IF v = <<>> THEN <<>> ELSE v[1]

\* The values field f owns when it holds v.
Refs(f, v) == IF f.of \in Payloads THEN {} ELSE {Items(f, v)[i] : i \in 1..Len(Items(f, v))}

\* A construction that leaves the values it uses in the producer's hands.
Moved_None(fs, fv) == {}

\* The values moved out of the producer's hands by a construction with fields fv.
Moved(fs, fv) == UNION {Refs(fs[i], fv[i]) : i \in 1..Len(fs)}

\* Every way to fill the fields fs from avail; a value is moved at most once.
RECURSIVE Fill(_, _)
Fill(fs, avail) ==
    IF fs = <<>> THEN {<<>>}
    ELSE UNION {{<<v>> \o r : r \in Fill(Tail(fs), avail \ Refs(Head(fs), v))}
                : v \in Choices(Head(fs), avail)}

\* Nothing is built yet; c values may be.
Start(c) ==
    /\ nodes = <<>>
    /\ held = {}
    /\ intent = <<>>
    /\ tags = {}
    /\ cap = c

Init == Start(MaxNodes)

InitIf == Start(MaxIfNodes)

\* Construct a value of variant v of type t, for operator token op ("-" when
\* the construct has no operator).
Build(t, v, op) ==
    /\ Len(nodes) < cap
    /\ \E fv \in Fill(Schema[t][v], held) :
          /\ nodes' = Append(nodes, [type |-> t, variant |-> v, fields |-> fv])
          /\ held' = (held \ Moved(Schema[t][v], fv)) \cup {Len(nodes) + 1}
    /\ intent' = Append(intent, op)

\* Produce an operator tag, a unit variant of enum t.
Tag(t) ==
    \E v \in DOMAIN Schema[t] :
        /\ <<t, v>> \notin tags
        /\ tags' = tags \cup {<<t, v>>}

NewChunk == Build("Chunk", "Chunk", "-") /\ UNCHANGED <<tags, cap>>
NewBlock == Build("Block", "Block", "-") /\ UNCHANGED <<tags, cap>>
NewReturnStatement == Build("ReturnStatement", "ReturnStatement", "-") /\ UNCHANGED <<tags, cap>>
NewVariableList == Build("VariableList", "VariableList", "-") /\ UNCHANGED <<tags, cap>>
NewNameList == Build("NameList", "NameList", "-") /\ UNCHANGED <<tags, cap>>
NewExpressionList == Build("ExpressionList", "ExpressionList", "-") /\ UNCHANGED <<tags, cap>>
NewFieldList == Build("FieldList", "FieldList", "-") /\ UNCHANGED <<tags, cap>>
NewFunctionBody == Build("FunctionBody", "FunctionBody", "-") /\ UNCHANGED <<tags, cap>>
StatementSemicolon == Build("Statement", "Semicolon", "-") /\ UNCHANGED <<tags, cap>>
StatementDo == Build("Statement", "Do", "-") /\ UNCHANGED <<tags, cap>>
StatementIf == Build("Statement", "If", "-") /\ UNCHANGED <<tags, cap>>
VariableName == Build("Variable", "Name", "-") /\ UNCHANGED <<tags, cap>>
VariableDotAccess == Build("Variable", "DotAccess", "-") /\ UNCHANGED <<tags, cap>>
ExpressionNil == Build("Expression", "Nil", "-") /\ UNCHANGED <<tags, cap>>
ExpressionTrue == Build("Expression", "True", "-") /\ UNCHANGED <<tags, cap>>
ExpressionNumber == Build("Expression", "Number", "-") /\ UNCHANGED <<tags, cap>>
ExpressionPrefixExpression == Build("Expression", "PrefixExpression", "-") /\ UNCHANGED <<tags, cap>>
ExpressionBinaryOperation ==
    /\ \E op \in DOMAIN BinaryOperation : Build("Expression", "BinaryOperation", op)
    /\ UNCHANGED <<tags, cap>>
ExpressionUnaryOperation ==
    /\ \E op \in DOMAIN UnaryOperation : Build("Expression", "UnaryOperation", op)
    /\ UNCHANGED <<tags, cap>>
PrefixExpressionVariable == Build("PrefixExpression", "Variable", "-") /\ UNCHANGED <<tags, cap>>
PrefixExpressionParenthesis == Build("PrefixExpression", "Parenthesis", "-") /\ UNCHANGED <<tags, cap>>
FieldArrayStyle == Build("Field", "ArrayStyle", "-") /\ UNCHANGED <<tags, cap>>
ParameterListNameList == Build("ParameterList", "NameList", "-") /\ UNCHANGED <<tags, cap>>
ParameterListExtendedArguments == Build("ParameterList", "ExtendedArguments", "-") /\ UNCHANGED <<tags, cap>>
ParameterListExtendedArgumentsVoid == Build("ParameterList", "ExtendedArgumentsVoid", "-") /\ UNCHANGED <<tags, cap>>
NewBinaryOperation == Tag("BinaryOperation") /\ UNCHANGED <<nodes, held, intent, cap>>
NewUnaryOperation == Tag("UnaryOperation") /\ UNCHANGED <<nodes, held, intent, cap>>

\* The comma-separated lists and their elements.
NextLists ==
    \/ VariableName
    \/ ExpressionNil
    \/ FieldArrayStyle
    \/ NewVariableList
    \/ NewNameList
    \/ NewExpressionList
    \/ NewFieldList

SpecLists == Init /\ [][NextLists]_vars

\* Blocks, their statements and their return.
NextBlock ==
    \/ ExpressionNil
    \/ NewExpressionList
    \/ NewReturnStatement
    \/ StatementSemicolon
    \/ StatementDo
    \/ NewBlock
    \/ NewChunk

SpecBlock == Init /\ [][NextBlock]_vars

\* Variables, prefix expressions and expressions, which contain one another.
NextTree ==
    \/ VariableName
    \/ VariableDotAccess
    \/ PrefixExpressionVariable
    \/ PrefixExpressionParenthesis
    \/ ExpressionPrefixExpression
    \/ NewBlock
    \/ NewChunk

SpecTree == Init /\ [][NextTree]_vars

\* Operator expressions.
NextExpr ==
    \/ ExpressionNumber
    \/ ExpressionBinaryOperation
    \/ ExpressionUnaryOperation

SpecExpr == Init /\ [][NextExpr]_vars

\* The if statement.
NextIf ==
    \/ ExpressionTrue
    \/ NewBlock
    \/ StatementIf

SpecIf == InitIf /\ [][NextIf]_vars

\* Function bodies and their parameters.
NextFunc ==
    \/ NewNameList
    \/ ParameterListNameList
    \/ ParameterListExtendedArguments
    \/ ParameterListExtendedArgumentsVoid
    \/ NewBlock
    \/ NewFunctionBody

SpecFunc == Init /\ [][NextFunc]_vars

\* The operator tags.
NextTags ==
    \/ NewBinaryOperation
    \/ NewUnaryOperation

SpecTags == Init /\ [][NextTags]_vars

Next ==
    \/ NextLists
    \/ NextBlock
    \/ NextTree
    \/ NextExpr
    \/ NextIf
    \/ NextFunc
    \/ NextTags

Spec == Init /\ [][Next]_vars

(***************************************************************************)
(* Reading the tree.                                                       *)
(***************************************************************************)
Ids == 1..Len(nodes)

FieldsOf(n) == Schema[nodes[n].type][nodes[n].variant]

\* The value of the field called name.
Get(n, name) ==
    LET i == CHOOSE j \in 1..Len(FieldsOf(n)) : FieldsOf(n)[j].name = name
    IN  nodes[n].fields[i]

\* Everything the fields fs hold in fv, flattened, in declaration order.
RECURSIVE AllItems(_, _)
AllItems(fs, fv) ==
    IF fs = <<>> THEN <<>> ELSE Items(Head(fs), Head(fv)) \o AllItems(Tail(fs), Tail(fv))

\* The same, owned values only.
RECURSIVE OwnedItems(_, _)
OwnedItems(fs, fv) ==
    IF fs = <<>> THEN <<>>
    ELSE (IF Head(fs).of \in Payloads THEN <<>> ELSE Items(Head(fs), Head(fv)))
         \o OwnedItems(Tail(fs), Tail(fv))

\* The elements of value n, in traversal order.
Elements(n) == AllItems(FieldsOf(n), nodes[n].fields)

\* The children of value n, in traversal order.
Kids(n) == OwnedItems(FieldsOf(n), nodes[n].fields)

KidSet(n) == {Kids(n)[i] : i \in 1..Len(Kids(n))}

Parents(n) == {p \in Ids : n \in KidSet(p)}

RECURSIVE Closure(_, _)
Closure(S, k) == IF k = 0 THEN S ELSE Closure(S \cup UNION {KidSet(m) : m \in S}, k - 1)

\* Everything below value n.
Descendants(n) == Closure(KidSet(n), Len(nodes))

\* The value n as a whole: its own data with each child replaced by the child's value.
RECURSIVE Tree(_)
RECURSIVE TreeSeq(_)
TreeSeq(s) == IF s = <<>> THEN <<>> ELSE <<Tree(Head(s))>> \o TreeSeq(Tail(s))
Tree(n) ==
    LET fs == FieldsOf(n)
        fv == nodes[n].fields
        Deep(f, v) ==
            IF f.of \in Payloads THEN v
            ELSE CASE f.wrap = "Box" -> Tree(v)
                   [] f.wrap = "Option" -> TreeSeq(v)
                   [] f.wrap = "OptVec" -> IF v = <<>> THEN <<>> ELSE <<TreeSeq(v[1])>>
    IN  [type |-> nodes[n].type, variant |-> nodes[n].variant,
         fields |-> [i \in 1..Len(fs) |-> Deep(fs[i], fv[i])]]

\* The source text value n stands for: its own data with the content of each
\* field in order, an absent Vec reading as no items.
RECURSIVE Denotes(_)
RECURSIVE DenotesSeq(_)
DenotesSeq(s) == IF s = <<>> THEN <<>> ELSE <<Denotes(Head(s))>> \o DenotesSeq(Tail(s))
Denotes(n) ==
    LET fs == FieldsOf(n)
        fv == nodes[n].fields
        Read(f, v) ==
            IF f.of \in Payloads THEN Items(f, v) ELSE DenotesSeq(Items(f, v))
    IN  [type |-> nodes[n].type, variant |-> nodes[n].variant,
         fields |-> [i \in 1..Len(fs) |-> Read(fs[i], fv[i])]]

\* The number of items the fields fs can hold, over every way to fill them.
RECURSIVE Sizes(_)
Sizes(fs) ==
    IF fs = <<>> THEN {0}
    ELSE LET one == CASE Head(fs).wrap = "Box" -> {1}
                      [] Head(fs).wrap = "Option" -> {0, 1}
                      [] Head(fs).wrap = "OptVec" -> 0..MaxRest
         IN  {a + b : a \in one, b \in Sizes(Tail(fs))}

(***************************************************************************)
(* Properties.                                                             *)
(***************************************************************************)
ListTypes == {"VariableList", "NameList", "ExpressionList", "FieldList"}

\* The length of the optional rest of list n, 0 when it is absent.
RestLen(n) == LET r == nodes[n].fields[2] IN IF r = <<>> THEN 0 ELSE Len(r[1])

\* C1: every VariableList, NameList, ExpressionList and FieldList built holds at
\* least one element: the required head plus the length of the optional rest.
C1_NonEmptyLists ==
    \A n \in Ids :
        nodes[n].type \in ListTypes =>
            /\ Len(Elements(n)) >= 1
            /\ Len(Elements(n)) = 1 + RestLen(n)

\* A list with an absent rest, one with a present but empty rest and an
\* ExpressionList with a non-empty rest have been built.
C1_Witness ==
    /\ \E n \in Ids : nodes[n].type \in ListTypes /\ nodes[n].fields[2] = <<>>
    /\ \E n \in Ids : nodes[n].type \in ListTypes /\ nodes[n].fields[2] = << <<>> >>
    /\ \E n \in Ids : nodes[n].type = "ExpressionList" /\ RestLen(n) >= 1

\* C2: a ReturnStatement is held by a Block only, and as the last of the
\* Block's children: no Statement follows it; and no type of the file but
\* Block has a field that holds a ReturnStatement.
C2_TrailingReturn ==
    /\ \A p \in Ids :
           \A i \in 1..Len(Kids(p)) :
               nodes[Kids(p)[i]].type = "ReturnStatement" =>
                   /\ nodes[p].type = "Block"
                   /\ i = Len(Kids(p))
                   /\ \A j \in 1..(i - 1) : nodes[Kids(p)[j]].type = "Statement"
    /\ \A t \in DOMAIN Schema : \A v \in DOMAIN Schema[t] :
           \A i \in 1..Len(Schema[t][v]) :
               Schema[t][v][i].of = "ReturnStatement" => t = "Block"

\* A Block holding a statement and a return has been built.
C2_Witness ==
    \E p \in Ids :
        /\ nodes[p].type = "Block"
        /\ Len(Kids(p)) >= 2
        /\ nodes[Kids(p)[Len(Kids(p))]].type = "ReturnStatement"

\* The values built form a forest: one parent at most, no value below itself, no
\* value twice under a parent, and what the producer holds has no parent.
PureTree ==
    \A n \in Ids :
        /\ Cardinality(Parents(n)) <= 1
        /\ n \notin Descendants(n)
        /\ Cardinality(KidSet(n)) = Len(Kids(n))
        /\ n \in held => Parents(n) = {}

\* C3: every construction step leaves a pure tree, and a value that has a
\* parent keeps that parent.
C3_PureTreeOwnership ==
    [][/\ PureTree'
       /\ \A n \in Ids : Parents(n) # {} => Parents(n)' = Parents(n)]_vars

\* A value with four values below it has been built.
C3_Witness == \E n \in Ids : Cardinality(Descendants(n)) >= 4 /\ Parents(n) = {}

OperatorVariants == {"BinaryOperation", "UnaryOperation"}

IsOperation(n) == nodes[n].type = "Expression" /\ nodes[n].variant \in OperatorVariants

\* C4: two operator expressions built for different operators over the same
\* operands are different values.
C4_OperatorCarried ==
    \A a \in Ids : \A b \in Ids :
        (/\ IsOperation(a)
         /\ IsOperation(b)
         /\ nodes[a].variant = nodes[b].variant
         /\ intent[a] # intent[b]
         /\ TreeSeq(Kids(a)) = TreeSeq(Kids(b)))
        => Tree(a) # Tree(b)

\* C5: two values of one type that stand for the same source text are the
\* same value.
C5_UniqueRepresentation ==
    \A a \in Ids : \A b \in Ids :
        (nodes[a].type = nodes[b].type /\ Denotes(a) = Denotes(b)) => Tree(a) = Tree(b)

IsIf(n) == nodes[n].type = "Statement" /\ nodes[n].variant = "If"

\* The children of value n that are of type t.
KidsOfType(n, t) == {i \in 1..Len(Kids(n)) : nodes[Kids(n)[i]].type = t}

\* C6: an If holds at most one elseif clause: besides its condition at most one
\* more expression, and besides its then and else blocks at most one more block.
C6_AtMostOneElseif ==
    \A n \in Ids :
        IsIf(n) =>
            /\ Cardinality(KidsOfType(n, "Expression")) <= 2
            /\ Cardinality(KidsOfType(n, "Block")) <= 3
            /\ Len(Kids(n)) <= 5

\* An If with an elseif condition and an elseif block has been built.
C6_Witness ==
    \E n \in Ids :
        /\ IsIf(n)
        /\ Get(n, "elseif_condition") # <<>>
        /\ Get(n, "elsethen") # <<>>

\* C7: once a ReturnStatement is built, zero is among the numbers of
\* expressions the list of a ReturnStatement can hold.
C7_ReturnMayBeEmpty ==
    (\E n \in Ids : nodes[n].type = "ReturnStatement") =>
        LET f == ReturnStatement.ReturnStatement[1]
        IN  0 \in (IF f.wrap = "Box" THEN {} ELSE {0}) \cup Sizes(Schema[f.of][f.of])

\* The number of names of ParameterList p.
NamesOf(p) == IF Kids(p) = <<>> THEN 0 ELSE Len(Elements(Kids(p)[1]))

Variadic(p) == nodes[p].variant \in {"ExtendedArguments", "ExtendedArgumentsVoid"}

\* The parameter form FunctionBody n stands for: has names, is variadic.
Form(n) ==
    LET p == Get(n, "0")
    IN  IF p = <<>> THEN <<FALSE, FALSE>> ELSE <<NamesOf(p[1]) > 0, Variadic(p[1])>>

\* The shape of the parameter field of FunctionBody n.
Shape(n) == LET p == Get(n, "0") IN IF p = <<>> THEN "absent" ELSE nodes[p[1]].variant

\* C8: ParameterList has its three variants and no other, none of its values
\* has no names and no varargs, and each of the four parameter forms of a
\* FunctionBody has its one shape.
C8_ParameterForms ==
    /\ DOMAIN ParameterList = {"NameList", "ExtendedArguments", "ExtendedArgumentsVoid"}
    /\ \A p \in Ids : nodes[p].type = "ParameterList" => (NamesOf(p) > 0 \/ Variadic(p))
    /\ \A n \in Ids :
           nodes[n].type = "FunctionBody" =>
               Form(n) = CASE Shape(n) = "absent" -> <<FALSE, FALSE>>
                           [] Shape(n) = "NameList" -> <<TRUE, FALSE>>
                           [] Shape(n) = "ExtendedArguments" -> <<TRUE, TRUE>>
                           [] Shape(n) = "ExtendedArgumentsVoid" -> <<FALSE, TRUE>>

\* A FunctionBody with named and variadic parameters and a ParameterList
\* without names have been built.
C8_Witness ==
    /\ \E n \in Ids : nodes[n].type = "FunctionBody" /\ Shape(n) = "ExtendedArguments"
    /\ \E p \in Ids : nodes[p].type = "ParameterList" /\ NamesOf(p) = 0

TagsOf(t) == {x \in tags : x[1] = t}

\* C9 as stated: BinaryOperation has 14 members and UnaryOperation has 3.
C9_FourteenAndThree ==
    /\ Cardinality(TagsOf("BinaryOperation")) <= 14
    /\ Cardinality(TagsOf("UnaryOperation")) <= 3

\* C9: the operator tags carry no payload, and there are 15 of BinaryOperation
\* and 3 of UnaryOperation.
C9_FifteenAndThree ==
    /\ \A x \in tags : Schema[x[1]][x[2]] = <<>>
    /\ Cardinality(TagsOf("BinaryOperation")) <= 15
    /\ Cardinality(TagsOf("UnaryOperation")) <= 3

\* 15 different BinaryOperation tags and 3 different UnaryOperation tags have
\* been produced.
C9_Witness ==
    /\ Cardinality(TagsOf("BinaryOperation")) = 15
    /\ Cardinality(TagsOf("UnaryOperation")) = 3

\* C10: an If has an elseif condition exactly when it has an elseif block.
C10_ElseifPaired ==
    \A n \in Ids :
        IsIf(n) => ((Get(n, "elseif_condition") = <<>>) <=> (Get(n, "elsethen") = <<>>))

====
